---------------------------- MODULE Spec2Model ----------------------------
(***************************************************************************)
(* Model of the marketcap rebalancing strategy (src/strategy.go).         *)
(*                                                                         *)
(* Numbers.  A float64 is modelled as an exact rational <<n, d>> in lowest *)
(* terms with d > 0: float rounding is abstracted, IEEE NaN/Inf are not    *)
(* represented, so the inputs are drawn where no division by zero occurs   *)
(* (positive prices, positive market-cap total, positive portfolio value). *)
(* A fixedpoint.Value is an integer number of units of 1/DefaultPow, as in *)
(* the int64 implementation the strategy is compiled against (it compares  *)
(* s.Threshold < 0 directly).  The precision is scaled down from 1e8 so    *)
(* that the arithmetic stays inside TLC's integers; the conversions keep   *)
(* their truncation.                                                       *)
(***************************************************************************)
EXTENDS Integers, Sequences, FiniteSets, TLC

VARIABLES
    cfg,            \* the Strategy's configuration fields (strategy.go 29-38)
    pc,             \* position of the OnKLineClosed callback inside rebalance
    prices,         \* getPrices: the prices appended so far
    weights,        \* getTargetWeights: the market caps appended so far
    marketValues,   \* rebalance: prices.Mul(quantities)
    targetWeights,  \* rebalance: the result of getTargetWeights
    orders,         \* rebalance: the generated batch of SubmitOrders
    orderStore,     \* s.orderStore: ids of the orders it holds
    calls,          \* the collaborator calls made by the current cycle
    result,         \* what the last rebalance returned: "none", "nil", "error"
    pending,        \* closed klines of the interval not yet dispatched
    cycles          \* rebalance runs triggered by the current interval close

vars == <<cfg, pc, prices, weights, marketValues, targetWeights, orders,
          orderStore, calls, result, pending, cycles>>

--------------------------------------------------------------------------
(* Bounds of the model *)

MaxTargets == 2
MaxOpenOrders == 3

--------------------------------------------------------------------------
(* float64 as exact rationals *)

RECURSIVE GCD(_, _)
GCD(a, b) == IF b = 0 THEN a ELSE GCD(b, a % b)

AbsInt(x) == IF x < 0 THEN -x ELSE x

Rat(n, d) ==
    LET s == IF d < 0 THEN -1 ELSE 1
        g == GCD(AbsInt(n), AbsInt(d))
    IN  <<(s * n) \div g, (s * d) \div g>>

FromInt(x) == <<x, 1>>
FAdd(a, b) == Rat(a[1] * b[2] + b[1] * a[2], a[2] * b[2])
FSub(a, b) == Rat(a[1] * b[2] - b[1] * a[2], a[2] * b[2])
FMul(a, b) == Rat(a[1] * b[1], a[2] * b[2])
FDiv(a, b) == Rat(a[1] * b[2], a[2] * b[1])
FLt(a, b) == a[1] * b[2] < b[1] * a[2]
FLe(a, b) == a[1] * b[2] <= b[1] * a[2]
FAbs(a) == <<AbsInt(a[1]), a[2]>>

--------------------------------------------------------------------------
(* fixedpoint.Value: integer units of 1/DefaultPow *)

DefaultPow == 10

\* Float64: float64(v) / DefaultPow
Float64(v) == Rat(v, DefaultPow)

\* NewFromFloat: Value(int64(val * DefaultPow)), truncated toward zero
\* (releases of the package that round to nearest instead lose the same
\* sub-unit part of the value)
NewFromFloat(val) ==
    LET n == val[1] * DefaultPow
    IN  IF n >= 0 THEN n \div val[2] ELSE -((-n) \div val[2])

Sign(v) == IF v > 0 THEN 1 ELSE IF v < 0 THEN -1 ELSE 0
Abs(v) == IF v < 0 THEN -v ELSE v
Mul(v, v2) == NewFromFloat(FMul(Float64(v), Float64(v2)))
Div(v, v2) == NewFromFloat(FDiv(Float64(v), Float64(v2)))

\* bbgo.AdjustQuantityByMaxAmount, called at strategy.go 233
AdjustQuantityByMaxAmount(quantity, currentPrice, maxAmount) ==
    LET amount == Mul(currentPrice, quantity)
    IN  IF amount > maxAmount
        THEN Mul(quantity, Div(maxAmount, amount))
        ELSE quantity

--------------------------------------------------------------------------
(* types.Float64Slice *)

RECURSIVE Sum(_)
Sum(s) == IF s = <<>> THEN FromInt(0) ELSE FAdd(Head(s), Sum(Tail(s)))

DivScalar(s, x) == [k \in 1..Len(s) |-> FDiv(s[k], x)]
MulScalar(s, x) == [k \in 1..Len(s) |-> FMul(s[k], x)]
SliceMul(a, b) == [k \in 1..Len(a) |-> FMul(a[k], b[k])]

\* float_slice.go
Normalize(s) == DivScalar(s, Sum(s))

--------------------------------------------------------------------------
(* Configuration (strategy.go 25-41) and Validate (53-73) *)

AllCurrencies == <<"BTC", "ETH", "BNB">>
BaseCurrency == "USDT"

\* targetCurrencies lists of the model, with two that Validate rejects
TargetLists ==
    {SubSeq(AllCurrencies, 1, n) : n \in 1..MaxTargets}
        \cup {<<>>, <<"BTC", BaseCurrency>>}

BaseWeights == {0, 2, 5, 15}
Thresholds == {-1, 0, 1, 3}
MaxAmounts == {-10, 0, 10}

Configs ==
    [TargetCurrencies : TargetLists, BaseCurrency : {BaseCurrency},
     BaseWeight : BaseWeights, Threshold : Thresholds,
     IgnoreLocked : BOOLEAN, DryRun : BOOLEAN, MaxAmount : MaxAmounts]

Validate(s) ==
    IF Len(s.TargetCurrencies) = 0
    THEN "taretCurrencies should not be empty"
    ELSE IF \E k \in 1..Len(s.TargetCurrencies) :
                s.TargetCurrencies[k] = s.BaseCurrency
    THEN "targetCurrencies contain baseCurrency"
    ELSE IF s.Threshold < 0
    THEN "threshold should not less than 0"
    ELSE IF Sign(s.MaxAmount) < 0
    THEN "maxAmount shoud not less than 0"
    ELSE "nil"

\* getSymbols (255-261): one symbol per target currency
getSymbols(s) ==
    [k \in 1..Len(s.TargetCurrencies) |-> <<s.TargetCurrencies[k], s.BaseCurrency>>]

NumSymbols == Len(cfg.TargetCurrencies)

--------------------------------------------------------------------------
(* getTargetWeights after its queries (105-114), getQuantities (176-193) *)

getTargetWeights(s, marketCaps) ==
    Append(MulScalar(Normalize(marketCaps),
                     FSub(FromInt(1), Float64(s.BaseWeight))),
           Float64(s.BaseWeight))

Total(b) == b.Available + b.Locked

quantityOf(s, b) ==
    IF s.IgnoreLocked THEN Float64(Total(b)) ELSE Float64(b.Available)

getQuantities(s, balances) ==
    Append([k \in 1..Len(s.TargetCurrencies) |->
                quantityOf(s, balances[s.TargetCurrencies[k]])],
           quantityOf(s, balances[s.BaseCurrency]))

--------------------------------------------------------------------------
(* generateSubmitOrders (195-253) *)

\* 213
weightDifference(targetWeight, currentWeight) == FSub(targetWeight, currentWeight)

belowThresholdInverted(difference, threshold) ==
    FLt(Float64(threshold), FAbs(difference))

\* 214: math.Abs(weightDifference) < s.Threshold.Float64()
belowThreshold(difference, threshold) ==
    FLt(FAbs(difference), Float64(threshold))

\* 224
rawQuantity(difference, totalValue, currentPrice) ==
    NewFromFloat(FDiv(FMul(difference, totalValue), currentPrice))

\* 226-230
orderSide(quantity) == IF Sign(quantity) < 0 THEN "SELL" ELSE "BUY"

\* 232-240
adjustedQuantity(s, quantity, currentPrice) ==
    IF Sign(s.MaxAmount) > 0
    THEN AdjustQuantityByMaxAmount(quantity, NewFromFloat(currentPrice), s.MaxAmount)
    ELSE quantity

\* 242-248
submitOrder(s, k, quantity, currentPrice) ==
    [Symbol |-> <<s.TargetCurrencies[k], s.BaseCurrency>>,
     Side |-> orderSide(quantity),
     Type |-> "LIMIT",
     Quantity |-> adjustedQuantity(s, Abs(quantity), currentPrice),
     Price |-> NewFromFloat(currentPrice)]

\* the body of the loop for index k (Go index k - 1): no order or one order
ordersFor(s, k, ps, currentWeights, totalValue, tws) ==
    LET difference == weightDifference(tws[k], currentWeights[k])
    IN  IF belowThreshold(difference, s.Threshold)
        THEN <<>>
        ELSE <<submitOrder(s, k, rawQuantity(difference, totalValue, ps[k]), ps[k])>>

RECURSIVE submitOrdersUpTo(_, _, _, _, _, _)
submitOrdersUpTo(s, k, ps, currentWeights, totalValue, tws) ==
    IF k = 0 THEN <<>>
    ELSE submitOrdersUpTo(s, k - 1, ps, currentWeights, totalValue, tws)
            \o ordersFor(s, k, ps, currentWeights, totalValue, tws)

generateSubmitOrders(s, ps, mvs, tws) ==
    submitOrdersUpTo(s, Len(s.TargetCurrencies), ps, Normalize(mvs), Sum(mvs), tws)

--------------------------------------------------------------------------
(* Inputs of a cycle *)

\* ticker.Last of QueryTicker, as fixedpoint values
TickerPrices == {10, 15}

\* QueryMarketCapInUSD results
MarketCaps == {1, 3}

\* balances of one currency in session.Account.Balances()
Balances ==
    {[Available |-> 0, Locked |-> 0], [Available |-> 5, Locked |-> 5],
     [Available |-> 30, Locked |-> 0]}

Currencies(s) == {s.TargetCurrencies[k] : k \in 1..Len(s.TargetCurrencies)}
                    \cup {s.BaseCurrency}

\* the configurations and balances the run-time specification draws from
RunConfigs ==
    {s \in Configs : s.BaseWeight = 5 /\ s.Threshold <= 1 /\ ~s.IgnoreLocked}

RunTickerPrices == {10}

RunBalances ==
    {[Available |-> 0, Locked |-> 0], [Available |-> 10, Locked |-> 0]}

\* accounts whose portfolio value is positive under the prices ps
BalanceMaps(s, ps, values) ==
    {b \in [Currencies(s) -> values] :
        FLt(FromInt(0), Sum(SliceMul(ps, getQuantities(s, b))))}

PriceSlices(s) ==
    {Append([k \in 1..Len(s.TargetCurrencies) |-> Float64(f[k])], FromInt(1)) :
        f \in [1..Len(s.TargetCurrencies) -> TickerPrices]}

MarketCapSlices(s) ==
    {[k \in 1..Len(s.TargetCurrencies) |-> FromInt(f[k])] :
        f \in [1..Len(s.TargetCurrencies) -> MarketCaps]}

--------------------------------------------------------------------------
(* The order computation alone: inputs drawn at Init, one application *)

InitOrders ==
    /\ cfg \in {s \in Configs : Validate(s) = "nil" /\ ~s.DryRun}
    /\ pc = "inputs"
    /\ prices \in PriceSlices(cfg)
    /\ weights \in MarketCapSlices(cfg)
    /\ \E b \in BalanceMaps(cfg, prices, Balances) :
            marketValues = SliceMul(prices, getQuantities(cfg, b))
    /\ targetWeights = <<>>
    /\ orders = <<>>
    /\ orderStore = {}
    /\ calls = <<>>
    /\ result = "none"
    /\ pending = 0
    /\ cycles = 0

ComputeOrders ==
    /\ pc = "inputs"
    /\ pc' = "generated"
    /\ targetWeights' = getTargetWeights(cfg, weights)
    /\ orders' = generateSubmitOrders(cfg, prices, marketValues, targetWeights')
    /\ UNCHANGED <<cfg, prices, weights, marketValues, orderStore, calls,
                   result, pending, cycles>>

NextOrders == ComputeOrders

SpecOrders == InitOrders /\ [][NextOrders]_vars

--------------------------------------------------------------------------
(* The strategy at run time: Subscribe, Run and the rebalance cycle *)

Init ==
    /\ cfg \in {s \in RunConfigs : Validate(s) = "nil"}
    /\ pc = "idle"
    /\ prices = <<>>
    /\ weights = <<>>
    /\ marketValues = <<>>
    /\ targetWeights = <<>>
    /\ orders = <<>>
    /\ orderStore = {}
    /\ calls = <<>>
    /\ result = "none"
    /\ pending = 0
    /\ cycles = 0

\* what a query returns: a value, or an error
Answers(values) ==
    {[err |-> FALSE, value |-> v] : v \in values} \cup {[err |-> TRUE, value |-> 0]}

Call(op, arg, err) == [op |-> op, arg |-> arg, err |-> err]

\* rebalance returns r to the callback (87-90), its locals are gone
Return(r) ==
    /\ pc' = "idle"
    /\ result' = r
    /\ prices' = <<>>
    /\ weights' = <<>>
    /\ marketValues' = <<>>
    /\ targetWeights' = <<>>
    /\ orders' = <<>>

\* Subscribe (75-79): one kline stream per symbol, so the close of the
\* configured interval delivers one closed kline per target currency.
IntervalClosed ==
    /\ pc = "idle"
    /\ pending = 0
    /\ pending' = Len(getSymbols(cfg))
    /\ cycles' = 0
    /\ UNCHANGED <<cfg, pc, prices, weights, marketValues, targetWeights,
                   orders, orderStore, calls, result>>

\* Run (86-91): the callback runs rebalance for the closed kline it is given
OnKLineClosed ==
    /\ pc = "idle"
    /\ pending > 0
    /\ Cardinality(orderStore) + NumSymbols <= MaxOpenOrders
    /\ pending' = pending - 1
    /\ cycles' = cycles + 1
    /\ pc' = "cancel"
    /\ calls' = <<>>
    /\ result' = "none"
    /\ UNCHANGED <<cfg, prices, weights, marketValues, targetWeights, orders,
                   orderStore>>

afterCancelIgnoringError(err) == "prices"

\* 119-121
afterCancel(err) == IF err THEN "return" ELSE "prices"

\* rebalance 118-121
CancelOrders ==
    /\ pc = "cancel"
    /\ \E err \in BOOLEAN :
        /\ calls' = Append(calls, Call("CancelOrders", orderStore, err))
        /\ IF afterCancel(err) = "return"
           THEN Return("error")
           ELSE /\ pc' = afterCancel(err)
                /\ UNCHANGED <<prices, weights, marketValues, targetWeights,
                               orders, result>>
    /\ UNCHANGED <<cfg, orderStore, pending, cycles>>

afterQueryIgnoringError(err, k, n, next) ==
    IF k = n THEN next ELSE "loop"

\* 164-166 and 99-101: the k-th of n queries of a loop
afterQuery(err, k, n, next) ==
    IF err THEN "return" ELSE IF k = n THEN next ELSE "loop"

\* getPrices (158-174), one QueryTicker per step
QueryTicker ==
    /\ pc = "prices"
    /\ LET k == Len(prices) + 1
           symbol == getSymbols(cfg)[k]
       IN  \E ticker \in Answers(RunTickerPrices) :
            LET to == afterQuery(ticker.err, k, NumSymbols, "weights")
                got == IF ticker.err THEN prices
                       ELSE Append(prices, Float64(ticker.value))
            IN  /\ calls' = Append(calls, Call("QueryTicker", symbol, ticker.err))
                /\ IF to = "return"
                   THEN Return("error")
                   ELSE /\ prices' = IF to = "loop" THEN got
                                     ELSE Append(got, FromInt(1))
                        /\ pc' = IF to = "loop" THEN "prices" ELSE to
                        /\ UNCHANGED <<weights, marketValues, targetWeights,
                                       orders, result>>
    /\ UNCHANGED <<cfg, orderStore, pending, cycles>>

\* getTargetWeights (95-103), one QueryMarketCapInUSD per step
QueryMarketCapInUSD ==
    /\ pc = "weights"
    /\ LET k == Len(weights) + 1
           currency == cfg.TargetCurrencies[k]
       IN  \E marketCap \in Answers(MarketCaps) :
            LET to == afterQuery(marketCap.err, k, NumSymbols, "generate")
                got == IF marketCap.err THEN weights
                       ELSE Append(weights, FromInt(marketCap.value))
            IN  /\ calls' = Append(calls, Call("QueryMarketCapInUSD", currency,
                                               marketCap.err))
                /\ IF to = "return"
                   THEN Return("error")
                   ELSE /\ weights' = got
                        /\ pc' = IF to = "loop" THEN "weights" ELSE to
                        /\ UNCHANGED <<prices, marketValues, targetWeights,
                                       orders, result>>
    /\ UNCHANGED <<cfg, orderStore, pending, cycles>>

afterGenerateIgnoringDryRun(s) == "submit"

\* 144-146
afterGenerate(s) == IF s.DryRun THEN "return" ELSE "submit"

\* getTargetWeights 105-114, rebalance 133-146
Generate ==
    /\ pc = "generate"
    /\ \E balances \in BalanceMaps(cfg, prices, RunBalances) :
        LET mvs == SliceMul(prices, getQuantities(cfg, balances))
            tws == getTargetWeights(cfg, weights)
        IN  IF afterGenerate(cfg) = "return"
            THEN Return("nil")
            ELSE /\ pc' = afterGenerate(cfg)
                 /\ marketValues' = mvs
                 /\ targetWeights' = tws
                 /\ orders' = generateSubmitOrders(cfg, prices, mvs, tws)
                 /\ UNCHANGED <<prices, weights, result>>
    /\ UNCHANGED <<cfg, orderStore, calls, pending, cycles>>

\* the ids the exchange gives n created orders: n ids the store does not hold
RECURSIVE NewOrderIDs(_, _)
NewOrderIDs(held, n) ==
    IF n = 0 THEN {}
    ELSE LET id == CHOOSE x \in 1..(Cardinality(held) + 1) : x \notin held
         IN  {id} \cup NewOrderIDs(held \cup {id}, n - 1)

\* rebalance 148-155
SubmitOrders ==
    /\ pc = "submit"
    /\ \E err \in BOOLEAN :
        IF err
        THEN /\ calls' = Append(calls, Call("SubmitOrders", orders, TRUE))
             /\ UNCHANGED orderStore
             /\ Return("error")
        ELSE LET createdOrders == NewOrderIDs(orderStore, Len(orders))
             IN  /\ calls' = calls \o <<Call("SubmitOrders", orders, FALSE),
                                        Call("orderStore.Add", createdOrders, FALSE)>>
                 /\ orderStore' = orderStore \cup createdOrders
                 /\ Return("nil")
    /\ UNCHANGED <<cfg, pending, cycles>>

\* Run 83-84: the store, bound to the user data stream, drops an order that
\* the stream reports cancelled, filled or rejected
handleOrderUpdate ==
    /\ \E id \in orderStore : orderStore' = orderStore \ {id}
    /\ UNCHANGED <<cfg, pc, prices, weights, marketValues, targetWeights,
                   orders, calls, result, pending, cycles>>

Next ==
    \/ IntervalClosed
    \/ OnKLineClosed
    \/ CancelOrders
    \/ QueryTicker
    \/ QueryMarketCapInUSD
    \/ Generate
    \/ SubmitOrders
    \/ handleOrderUpdate

Spec == Init /\ [][Next]_vars

--------------------------------------------------------------------------
(* Vocabulary of the claims about the generated batch *)

\* the cycle has computed its target weights and its batch
Generated == targetWeights # <<>>

currentWeightOf(k) == Normalize(marketValues)[k]
differenceOf(k) == FSub(targetWeights[k], currentWeightOf(k))
SymbolOf(k) == <<cfg.TargetCurrencies[k], cfg.BaseCurrency>>
OrdersOf(k) == {j \in 1..Len(orders) : orders[j].Symbol = SymbolOf(k)}
Notional(o) == FMul(Float64(o.Quantity), Float64(o.Price))

\* C3: an asset whose absolute weight difference is strictly below the
\* threshold gets no order in the generated batch.
C3_DeadBand ==
    Generated =>
        \A k \in 1..NumSymbols :
            FLt(FAbs(differenceOf(k)), Float64(cfg.Threshold)) => OrdersOf(k) = {}

\* C3 witness: a batch with an order for one asset while another asset, off
\* its target by less than the threshold, is skipped.
C3_Witness ==
    /\ Generated
    /\ orders # <<>>
    /\ \E k \in 1..NumSymbols :
        /\ differenceOf(k) # FromInt(0)
        /\ FLt(FAbs(differenceOf(k)), Float64(cfg.Threshold))
        /\ OrdersOf(k) = {}

\* C4 as claimed: every generated order has quantity >= 0 and, when
\* maxAmount > 0, a notional quantity * price of at most maxAmount.
C4_Claim ==
    Generated =>
        \A j \in 1..Len(orders) :
            /\ orders[j].Quantity >= 0
            /\ cfg.MaxAmount > 0 => FLe(Notional(orders[j]), Float64(cfg.MaxAmount))

\* C5 as claimed: when every target asset's current weight equals its target
\* weight, the generated batch is empty, for every threshold >= 0.
C5_Claim ==
    (Generated /\ \A k \in 1..NumSymbols : differenceOf(k) = FromInt(0))
        => orders = <<>>

\* C8 as claimed: for a configuration Validate accepts, the target weight
\* vector has len(targetCurrencies) + 1 entries, all non-negative, summing
\* to 1, the last one being baseWeight.
C8_Claim ==
    (Generated /\ Validate(cfg) = "nil") =>
        /\ Len(targetWeights) = NumSymbols + 1
        /\ \A k \in 1..Len(targetWeights) : FLe(FromInt(0), targetWeights[k])
        /\ Sum(targetWeights) = FromInt(1)
        /\ targetWeights[Len(targetWeights)] = Float64(cfg.BaseWeight)

\* C10 as claimed: an order for asset k is a buy exactly when the asset is
\* underweight and a sell exactly when it is overweight, and without a cap
\* its quantity is |weightDifference * totalValue / price|.
C10_Claim ==
    Generated =>
        \A k \in 1..NumSymbols : \A j \in OrdersOf(k) :
            /\ orders[j].Side = "BUY" <=> FLt(FromInt(0), differenceOf(k))
            /\ orders[j].Side = "SELL" <=> FLt(differenceOf(k), FromInt(0))
            /\ cfg.MaxAmount = 0 =>
                orders[j].Quantity =
                    NewFromFloat(FAbs(FDiv(FMul(differenceOf(k), Sum(marketValues)),
                                           prices[k])))

--------------------------------------------------------------------------
(* Vocabulary of the claims about a rebalance cycle *)

CallsOf(op) == {j \in 1..Len(calls) : calls[j].op = op}
Queries == CallsOf("QueryTicker") \cup CallsOf("QueryMarketCapInUSD")
FailedQueries == {j \in Queries : calls[j].err}
Submits == CallsOf("SubmitOrders") \cup CallsOf("orderStore.Add")
StoreGrows == ~(orderStore' \subseteq orderStore)

C1_Log ==
    calls # <<>> =>
        /\ calls[1].op = "CancelOrders"
        /\ CallsOf("CancelOrders") = {1}
        /\ calls[1].err => (Len(calls) = 1 /\ pc = "idle" /\ result = "error")

C1_Step ==
    /\ (calls = <<>> /\ calls' # <<>>) => calls'[1].arg = orderStore
    /\ StoreGrows => (calls' # <<>> /\ ~calls'[1].err)

\* C1: the first call of every cycle is CancelOrders, on exactly the orders
\* the store holds at that moment, so it precedes every price query,
\* market-cap query and SubmitOrders of the cycle; when it fails the cycle
\* returns the error with no further call, and the store gains no order.
C1_CancelFirst == [](C1_Log) /\ [][C1_Step]_vars

\* C1 witness: a cycle ended by a failed CancelOrders on a non-empty store.
C1_Witness ==
    /\ pc = "idle"
    /\ result = "error"
    /\ Len(calls) = 1
    /\ calls[1].op = "CancelOrders"
    /\ calls[1].err
    /\ calls[1].arg # {}

C2_Log ==
    \A j \in FailedQueries :
        /\ j = Len(calls)
        /\ pc = "idle"
        /\ result = "error"
        /\ Submits = {}

C2_Step ==
    StoreGrows => {j \in Queries' : calls'[j].err} = {}

\* C2: a failed ticker or market-cap query is the last call of its cycle:
\* the cycle returns the error, no later query is issued, SubmitOrders is
\* not called and the store gains no order.
C2_QueryFailureAborts == [](C2_Log) /\ [][C2_Step]_vars

\* C2 witness: with two target currencies, both tickers answered and the
\* first market-cap query failed; the second one was never issued.
C2_Witness ==
    /\ NumSymbols = 2
    /\ result = "error"
    /\ Cardinality(CallsOf("QueryTicker")) = 2
    /\ CallsOf("QueryMarketCapInUSD") = {Len(calls)}
    /\ calls[Len(calls)].err

\* C6 as claimed: no order with quantity zero is passed to SubmitOrders.
C6_Claim ==
    \A j \in CallsOf("SubmitOrders") :
        \A n \in 1..Len(calls[j].arg) : calls[j].arg[n].Quantity # 0

\* every query of the cycle was issued and answered
AllQueriesAnswered ==
    /\ Cardinality(Queries) = 2 * NumSymbols
    /\ FailedQueries = {}

C7_Log ==
    /\ cfg.DryRun => Submits = {}
    /\ (~cfg.DryRun /\ pc = "idle" /\ AllQueriesAnswered) =>
            Cardinality(CallsOf("SubmitOrders")) = 1

C7_Step ==
    /\ cfg.DryRun => ~StoreGrows
    /\ \A j \in CallsOf("SubmitOrders")' :
            j > Len(calls) =>
                calls'[j].arg =
                    generateSubmitOrders(cfg, prices, marketValues, targetWeights)

\* C7: with dryRun set a cycle never calls SubmitOrders and the store gains
\* no order, whatever the queries and balances return; without it, a cycle
\* whose cancel and queries all succeeded calls SubmitOrders exactly once,
\* with the batch generated from its prices, market values and weights.
C7_DryRun == [](C7_Log) /\ [][C7_Step]_vars

\* C7 witness: a dry-run cycle that computed its batch and returned nil.
C7_Witness ==
    /\ cfg.DryRun
    /\ pc = "idle"
    /\ result = "nil"
    /\ AllQueriesAnswered

\* C9 as claimed: once the closed klines of an interval are all handled,
\* rebalance has run exactly once for that interval.
C9_Claim ==
    (pc = "idle" /\ pending = 0 /\ cycles > 0) => cycles = 1

==========================================================================
